---- MODULE Spec2Model ----
(***************************************************************************)
(* A model of the incipit backend (src-tauri/src): the command handlers of *)
(* commands/project.rs, commands/compilation.rs and commands/settings.rs   *)
(* acting on a filesystem with directories, files and symbolic links.      *)
(*                                                                         *)
(* A file or directory name is a sequence of one-character strings, a path *)
(* is a sequence of names (std::path components); the component <<"/">>    *)
(* is the root directory, so a path that starts with it is absolute.       *)
(***************************************************************************)
EXTENDS Integers, Sequences, FiniteSets, TLC

VARIABLES fs, last, cp, env

vars == <<fs, last, cp, env>>

(***************************************************************************)
(* Names                                                                   *)
(***************************************************************************)
SLASH == <<"/">>
DOT == <<".">>
DOTDOT == <<".", ".">>
n_proj == <<"p", "r", "o", "j">>
n_etc == <<"e", "t", "c">>
n_pw == <<"p", "w">>
n_new == <<"n", "e", "w">>
n_main_tex == <<"m", "a", "i", "n", ".", "t", "e", "x">>
n_sub == <<"s", "u", "b">>
n_ch_tex == <<"c", "h", ".", "t", "e", "x">>
n_nodir == <<"n", "o", "d", "i", "r">>
n_link == <<"l", "i", "n", "k">>
n_dang == <<"d", "a", "n", "g">>
n_dlink == <<"d", "l", "i", "n", "k">>
n_build == <<"b", "u", "i", "l", "d">>
n_incipit == <<"i", "n", "c", "i", "p", "i", "t">>
n_dot_incipit == <<".", "i", "n", "c", "i", "p", "i", "t">>
n_settings_json == <<"s", "e", "t", "t", "i", "n", "g", "s", ".", "j", "s", "o", "n">>
n_cfg == <<"c", "f", "g">>
n_nope == <<"n", "o", "p", "e">>

n_a_tex == <<"a", ".", "t", "e", "x">>
n_b_tex == <<"b", ".", "t", "e", "x">>
n_Z_tex == <<"Z", ".", "t", "e", "x">>
n_y_tex == <<"y", ".", "t", "e", "x">>
n_B_tex == <<"B", ".", "t", "e", "x">>
n_A == <<"A">>
n_dot_git == <<".", "g", "i", "t">>
n_dot_keep == <<".", "k", "e", "e", "p">>
n_dot_dot_x == <<".", ".", "x">>
n_HEAD == <<"H", "E", "A", "D">>
n_dot_home == <<".", "h", "o", "m", "e">>

\* symbolic links followed in one resolution before the kernel gives up (ELOOP)
MaxLinkHops == 3
\* how many missing directories a new file's path may go through
MaxMissingDirs == 2
\* how many distinct texts an editor buffer or a file may hold
NumContents == 2
\* how many distinct non-empty documents the engine may produce
NumBytes == 2
\* how many distinct instants Utc::now may return
NumTimes == 2

(***************************************************************************)
(* std::path                                                               *)
(***************************************************************************)
ROOT == <<SLASH>>

IsAbsolute(p) == p # <<>> /\ p[1] = SLASH

\* PathBuf::join: an absolute argument replaces the base
Join(base, p) == IF IsAbsolute(p) THEN p ELSE base \o p

\* Path::starts_with: whole components
StartsWith(p, base) ==
    /\ Len(base) <= Len(p)
    /\ SubSeq(p, 1, Len(base)) = base

\* Path::parent: the path without its final component, lexically
HasParent(p) == Len(p) >= 1 /\ p # ROOT
Parent(p) == SubSeq(p, 1, Len(p) - 1)

\* Path::file_name: the final component when it is a normal one
HasFileName(p) == p # <<>> /\ p[Len(p)] \notin {SLASH, DOTDOT}
FileName(p) == p[Len(p)]

(***************************************************************************)
(* The filesystem: fs maps each existing canonical path to its node.       *)
(***************************************************************************)
Dir == [kind |-> "dir", data |-> <<>>, to |-> <<>>]
File(d) == [kind |-> "file", data |-> d, to |-> <<>>]
Link(t) == [kind |-> "link", data |-> <<>>, to |-> t]

\* Path resolution as the kernel does it: cur is an existing canonical path,
\* rest the components still to walk. st is "ok" (resolved to an existing
\* node), "new" (every component but the last resolves to a directory and the
\* last names nothing there) or "err".
RECURSIVE Walk(_, _, _, _)
Walk(f, cur, rest, hops) ==
    IF rest = <<>> THEN [st |-> "ok", path |-> cur]
    ELSE LET c == Head(rest)
             t == Tail(rest)
         IN  IF c = SLASH THEN Walk(f, ROOT, t, hops)
             ELSE IF f[cur].kind # "dir" THEN [st |-> "err", path |-> cur]
             ELSE IF c = DOT THEN Walk(f, cur, t, hops)
             ELSE IF c = DOTDOT
                  THEN Walk(f, IF cur = ROOT THEN ROOT ELSE Parent(cur), t, hops)
             ELSE LET nxt == Append(cur, c)
                  IN  IF nxt \notin DOMAIN f
                      THEN [st |-> IF t = <<>> THEN "new" ELSE "err", path |-> nxt]
                      ELSE IF f[nxt].kind = "link"
                           THEN IF hops = 0 THEN [st |-> "err", path |-> nxt]
                                ELSE Walk(f, cur, f[nxt].to \o t, hops - 1)
                      ELSE Walk(f, nxt, t, hops)

Resolve(f, p) == Walk(f, ROOT, p, MaxLinkHops)

\* Path::exists: follows symbolic links; false for a broken link
Exists(f, p) == Resolve(f, p).st = "ok"

\* Path::is_dir
IsDir(f, p) == Resolve(f, p).st = "ok" /\ f[Resolve(f, p).path].kind = "dir"

\* Path::canonicalize: fails unless every component exists
Canonicalize(f, p) ==
    LET r == Resolve(f, p)
    IN  [ok |-> r.st = "ok", path |-> r.path]

\* fs::write: open(O_WRONLY|O_CREAT|O_TRUNC), which follows symbolic links
\* and creates the file a broken link points to. at is the file written.
FsWrite(f, p, d) ==
    LET r == Resolve(f, p)
    IN  IF r.st = "ok" /\ f[r.path].kind = "file"
        THEN [ok |-> TRUE, fs |-> [f EXCEPT ![r.path] = File(d)], at |-> r.path]
        ELSE IF r.st = "new"
        THEN [ok |-> TRUE, fs |-> (r.path :> File(d)) @@ f, at |-> r.path]
        ELSE [ok |-> FALSE, fs |-> f, at |-> <<>>]

\* fs::read, fs::read_to_string
FsRead(f, p) ==
    LET r == Resolve(f, p)
    IN  IF r.st = "ok" /\ f[r.path].kind = "file"
        THEN [ok |-> TRUE, data |-> f[r.path].data, at |-> r.path]
        ELSE [ok |-> FALSE, data |-> <<>>, at |-> <<>>]

(***************************************************************************)
(* Results of a command: Result<T, String>. touched is the set of          *)
(* canonical paths of the files the command read or wrote.                 *)
(***************************************************************************)
Ok(v, t) == [ok |-> TRUE, val |-> v, err |-> <<>>, touched |-> t]
Err(e, t) == [ok |-> FALSE, val |-> <<>>, err |-> e, touched |-> t]

\* The error strings, as the parts a format! puts together (the text of the
\* operating system's error is left out).
E_PROJECT == <<"Invalid project path">>
E_FILE == <<"Invalid file path">>
E_DENIED == <<"Access denied: file is outside project directory">>
E_READ == <<"Failed to read file">>
E_WRITE == <<"Failed to write file">>

\* A finished call: the command, its arguments, its result, and what the
\* external engine did during it (whether it ran, its exit status, its stderr).
Called(op, root, path, arg, res, engine) ==
    [op |-> op, root |-> root, path |-> path, arg |-> arg, res |-> res,
     engine |-> engine]

(***************************************************************************)
(* commands/project.rs: read_file, save_file                               *)
(***************************************************************************)
\* the containment test of read_file and save_file
SandboxCheck(canonical, canonical_project) ==
    StartsWith(canonical, canonical_project)

read_file(f, project_path, file_path) ==
    LET full_path == Join(project_path, file_path)
        canonical_project == Canonicalize(f, project_path)
        canonical_file == Canonicalize(f, full_path)
        rd == FsRead(f, full_path)
    IN  IF ~canonical_project.ok THEN Err(E_PROJECT, {})
        ELSE IF ~canonical_file.ok THEN Err(E_FILE, {})
        ELSE IF ~SandboxCheck(canonical_file.path, canonical_project.path)
             THEN Err(E_DENIED, {})
        ELSE IF rd.ok THEN Ok(rd.data, {rd.at})
        ELSE Err(E_READ, {})

\* the nearest ancestor of a path that exists
RECURSIVE NearestExisting(_, _)
NearestExisting(f, p) ==
    IF Exists(f, p) \/ ~HasParent(p) THEN p ELSE NearestExisting(f, Parent(p))

\* save_file as it would be if it looked for the nearest existing ancestor
SavePathToCheckNearest(f, full_path) == NearestExisting(f, full_path)

\* the path save_file canonicalizes: the file when it exists, else its parent
SavePathToCheck(f, full_path) ==
    IF Exists(f, full_path) THEN full_path ELSE Parent(full_path)

\* the result of save_file and the filesystem it leaves
save_file(f, project_path, file_path, content) ==
    LET full_path == Join(project_path, file_path)
        canonical_project == Canonicalize(f, project_path)
        canonical_check == Canonicalize(f, SavePathToCheck(f, full_path))
        wr == FsWrite(f, full_path, content)
    IN  IF ~canonical_project.ok THEN [res |-> Err(E_PROJECT, {}), fs |-> f]
        ELSE IF ~Exists(f, full_path) /\ ~HasParent(full_path)
             THEN [res |-> Err(E_FILE, {}), fs |-> f]
        ELSE IF ~canonical_check.ok THEN [res |-> Err(E_FILE, {}), fs |-> f]
        ELSE IF ~SandboxCheck(canonical_check.path, canonical_project.path)
             THEN [res |-> Err(E_DENIED, {}), fs |-> f]
        ELSE IF wr.ok THEN [res |-> Ok(<<>>, {wr.at}), fs |-> wr.fs]
        ELSE [res |-> Err(E_WRITE, {}), fs |-> f]

(***************************************************************************)
(* commands/project.rs: check_pdf_exists, load_pdf                         *)
(***************************************************************************)
RECURSIVE LastDot(_, _)
LastDot(name, i) ==
    IF i = 0 THEN 0 ELSE IF name[i] = "." THEN i ELSE LastDot(name, i - 1)

\* Path::file_stem of a file name: the part before the last dot, the whole
\* name when it has no dot or only a leading one
file_stem(name) ==
    LET d == LastDot(name, Len(name))
    IN  IF d <= 1 THEN name ELSE SubSeq(name, 1, d - 1)

pdf_name(file_path) == file_stem(FileName(file_path)) \o <<".", "p", "d", "f">>

E_STEM == <<"Invalid file path">>
E_PDF_NOT_FOUND == <<"PDF not found">>
E_PDF_READ == <<"Failed to read PDF">>

\* where check_pdf_exists and load_pdf look for the document
PdfPath(project_path, file_path) ==
    project_path \o <<n_build, pdf_name(file_path)>>

check_pdf_exists(f, project_path, file_path) ==
    IF ~HasFileName(file_path) THEN Err(E_STEM, {})
    ELSE Ok(Exists(f, PdfPath(project_path, file_path)), {})

load_pdf(f, project_path, file_path) ==
    IF ~HasFileName(file_path) THEN Err(E_STEM, {})
    ELSE LET pdf_path == PdfPath(project_path, file_path)
             rd == FsRead(f, pdf_path)
         IN  IF ~Exists(f, pdf_path) THEN Err(E_PDF_NOT_FOUND, {})
             ELSE IF rd.ok THEN Ok(rd.data, {rd.at})
             ELSE Err(E_PDF_READ, {})

(***************************************************************************)
(* commands/compilation.rs                                                 *)
(***************************************************************************)
common_paths ==
    <<"/snap/bin/tectonic", "/usr/bin/tectonic", "/usr/local/bin/tectonic",
      "tectonic">>

E_NO_TECTONIC == <<"Tectonic not found", "Tectonic not found. Please install tectonic.">>
E_EXECUTE == <<"Failed to execute tectonic">>
E_NO_OUTPUT == <<"Compilation produced no output">>
E_OUT_READ == <<"Failed to read output PDF">>
E_COMPILE(stderr) == <<"LaTeX compilation failed:", stderr>>
E_COMPILE_LIB == <<"LaTeX compilation failed">>

\* which_tectonic: the first of common_paths that can be started, given the
\* set of those that can
RECURSIVE FirstStartable(_, _)
FirstStartable(startable, i) ==
    IF i > Len(common_paths) THEN 0
    ELSE IF common_paths[i] \in startable THEN i
    ELSE FirstStartable(startable, i + 1)

which_tectonic(startable) ==
    LET i == FirstStartable(startable, 1)
    IN  IF i = 0 THEN [ok |-> FALSE, path |-> ""]
        ELSE [ok |-> TRUE, path |-> common_paths[i]]

\* compile_latex_project as it would be if the buffer were not on disk when
\* the engine starts
CompileWriteSourceLate(f, project_path, file_path, source) ==
    [ok |-> TRUE, fs |-> f, at |-> Join(project_path, file_path)]

\* compile_latex_project writes the editor's buffer first
CompileWriteSource(f, project_path, file_path, source) ==
    FsWrite(f, Join(project_path, file_path), source)

\* the two places compile_latex_project looks for the document, build/ first
pdf_path_build(project_path, file_path) ==
    project_path \o <<n_build, pdf_name(file_path)>>

pdf_path_main(project_path, file_path) ==
    project_path \o <<pdf_name(file_path)>>

\* the empty check left out
IsEmptyUnchecked(bytes) == FALSE

\* is_empty of the bytes read back
IsEmpty(bytes) == Len(bytes) = 0

\* the read-back of compile_latex_project, after the engine exited with success
ReadBackPdf(f, project_path, file_path) ==
    IF ~HasFileName(file_path) THEN Err(E_STEM, {})
    ELSE LET b == pdf_path_build(project_path, file_path)
             m == pdf_path_main(project_path, file_path)
             pdf_path == IF Exists(f, b) THEN b ELSE m
             rd == FsRead(f, pdf_path)
         IN  IF ~Exists(f, b) /\ ~Exists(f, m) THEN Err(E_PDF_NOT_FOUND, {})
             ELSE IF ~rd.ok THEN Err(E_OUT_READ, {})
             ELSE IF IsEmpty(rd.data) THEN Err(E_NO_OUTPUT, {rd.at})
             ELSE Ok(rd.data, {rd.at})

\* compile_latex: the library call's outcome, then the empty check
compile_latex(lib_ok, pdf_data) ==
    IF ~lib_ok THEN Err(E_COMPILE_LIB, {})
    ELSE IF IsEmpty(pdf_data) THEN Err(E_NO_OUTPUT, {})
    ELSE Ok(pdf_data, {})

(***************************************************************************)
(* serde_json. A Value is <<"Null">>, <<"String", s>>, <<"Array", items>>  *)
(* or <<"Object", members>> with members a sequence of <<key, Value>>.     *)
(* A JSON text is a sequence of tokens <<kind, text>>.                     *)
(***************************************************************************)
Null == <<"Null">>
String(s) == <<"String", s>>
Array(items) == <<"Array", items>>
Object(members) == <<"Object", members>>

T_LBRACE == <<"punct", "{">>
T_RBRACE == <<"punct", "}">>
T_LBRACKET == <<"punct", "[">>
T_RBRACKET == <<"punct", "]">>
T_COLON == <<"punct", ":">>
T_COMMA == <<"punct", ",">>
T_NULL == <<"literal", "null">>
T_STR(s) == <<"string", s>>

\* serde_json::to_string_pretty of a Value
RECURSIVE to_string_pretty(_)
RECURSIVE SerItems(_, _)
RECURSIVE SerMembers(_, _)
SerItems(items, i) ==
    IF i > Len(items) THEN <<>>
    ELSE (IF i > 1 THEN <<T_COMMA>> ELSE <<>>)
         \o to_string_pretty(items[i]) \o SerItems(items, i + 1)

SerMembers(members, i) ==
    IF i > Len(members) THEN <<>>
    ELSE (IF i > 1 THEN <<T_COMMA>> ELSE <<>>)
         \o <<T_STR(members[i][1]), T_COLON>>
         \o to_string_pretty(members[i][2]) \o SerMembers(members, i + 1)

to_string_pretty(v) ==
    IF v[1] = "Null" THEN <<T_NULL>>
    ELSE IF v[1] = "String" THEN <<T_STR(v[2])>>
    ELSE IF v[1] = "Array"
         THEN <<T_LBRACKET>> \o SerItems(v[2], 1) \o <<T_RBRACKET>>
    ELSE <<T_LBRACE>> \o SerMembers(v[2], 1) \o <<T_RBRACE>>

\* serde_json's parser: the value that starts at token i, and the index after it
ParseFail == [ok |-> FALSE, val |-> Null, next |-> 0]

RECURSIVE ParseValue(_, _)
RECURSIVE ParseItems(_, _, _)
RECURSIVE ParseMembers(_, _, _)
ParseItems(toks, i, acc) ==
    LET v == ParseValue(toks, i)
    IN  IF ~v.ok \/ v.next > Len(toks) THEN ParseFail
        ELSE IF toks[v.next] = T_RBRACKET
             THEN [ok |-> TRUE, val |-> Array(Append(acc, v.val)), next |-> v.next + 1]
        ELSE IF toks[v.next] = T_COMMA
             THEN ParseItems(toks, v.next + 1, Append(acc, v.val))
        ELSE ParseFail

ParseMembers(toks, i, acc) ==
    IF i + 1 > Len(toks) \/ toks[i][1] # "string" \/ toks[i + 1] # T_COLON
    THEN ParseFail
    ELSE LET v == ParseValue(toks, i + 2)
             m == Append(acc, <<toks[i][2], v.val>>)
         IN  IF ~v.ok \/ v.next > Len(toks) THEN ParseFail
             ELSE IF toks[v.next] = T_RBRACE
                  THEN [ok |-> TRUE, val |-> Object(m), next |-> v.next + 1]
             ELSE IF toks[v.next] = T_COMMA THEN ParseMembers(toks, v.next + 1, m)
             ELSE ParseFail

ParseValue(toks, i) ==
    IF i > Len(toks) THEN ParseFail
    ELSE IF toks[i] = T_NULL THEN [ok |-> TRUE, val |-> Null, next |-> i + 1]
    ELSE IF toks[i][1] = "string"
         THEN [ok |-> TRUE, val |-> String(toks[i][2]), next |-> i + 1]
    ELSE IF toks[i] = T_LBRACKET
         THEN IF i + 1 <= Len(toks) /\ toks[i + 1] = T_RBRACKET
              THEN [ok |-> TRUE, val |-> Array(<<>>), next |-> i + 2]
              ELSE ParseItems(toks, i + 1, <<>>)
    ELSE IF toks[i] = T_LBRACE
         THEN IF i + 1 <= Len(toks) /\ toks[i + 1] = T_RBRACE
              THEN [ok |-> TRUE, val |-> Object(<<>>), next |-> i + 2]
              ELSE ParseMembers(toks, i + 1, <<>>)
    ELSE ParseFail

\* serde_json::from_str to a Value: one value and nothing after it
from_str(toks) ==
    LET v == ParseValue(toks, 1)
    IN  IF v.ok /\ v.next = Len(toks) + 1 THEN [ok |-> TRUE, val |-> v.val]
        ELSE [ok |-> FALSE, val |-> Null]

\* the members of an object that carry a key
Field(members, key) == {i \in 1..Len(members) : members[i][1] = key}
FieldValue(members, key) == members[CHOOSE i \in Field(members, key) : TRUE][2]

(***************************************************************************)
(* ProjectMeta (project.rs) and its derived Serialize / Deserialize.       *)
(* last_opened_file is an Option: <<>> is None, <<s>> is Some(s).          *)
(***************************************************************************)
ProjectMeta(last_opened_file, root_file, project_settings) ==
    [last_opened_file |-> last_opened_file, root_file |-> root_file,
     project_settings |-> project_settings]

\* the Default a #[derive(Default)] would give
ProjectMetaDerivedDefault(now) == ProjectMeta(<<>>, "", Null)

\* Default for ProjectMeta, created at time now
ProjectMetaDefault(now) ==
    ProjectMeta(<<"main.tex">>, "main.tex",
                Object(<< <<"created_at", String(now)>> >>))

\* the derive as it would be under #[serde(rename_all = "camelCase")] on
\* Serialize alone
SerializeProjectMetaRenamed(meta) ==
    Object(<< <<"lastOpenedFile",
                IF meta.last_opened_file = <<>> THEN Null
                ELSE String(meta.last_opened_file[1])>>,
              <<"rootFile", String(meta.root_file)>>,
              <<"projectSettings", meta.project_settings>> >>)

SerializeProjectMeta(meta) ==
    Object(<< <<"last_opened_file",
                IF meta.last_opened_file = <<>> THEN Null
                ELSE String(meta.last_opened_file[1])>>,
              <<"root_file", String(meta.root_file)>>,
              <<"project_settings", meta.project_settings>> >>)

\* a struct is read from an object: an absent Option is None, an absent
\* String or Value an error, as is a field given twice or with a wrong type
DeserializeProjectMeta(v) ==
    IF v[1] # "Object" THEN [ok |-> FALSE, val |-> <<>>]
    ELSE LET m == v[2]
             lof == Field(m, "last_opened_file")
             rf == Field(m, "root_file")
             ps == Field(m, "project_settings")
         IN  IF Cardinality(lof) > 1 \/ Cardinality(rf) # 1 \/ Cardinality(ps) # 1
             THEN [ok |-> FALSE, val |-> <<>>]
             ELSE IF lof # {}
                     /\ FieldValue(m, "last_opened_file")[1] \notin {"Null", "String"}
             THEN [ok |-> FALSE, val |-> <<>>]
             ELSE IF FieldValue(m, "root_file")[1] # "String"
             THEN [ok |-> FALSE, val |-> <<>>]
             ELSE [ok |-> TRUE,
                   val |-> ProjectMeta(
                       IF lof = {} \/ FieldValue(m, "last_opened_file") = Null
                       THEN <<>>
                       ELSE <<FieldValue(m, "last_opened_file")[2]>>,
                       FieldValue(m, "root_file")[2],
                       FieldValue(m, "project_settings"))]

E_META_READ == <<"Failed to read project metadata">>
E_META_PARSE == <<"Failed to parse project metadata">>
E_META_WRITE == <<"Failed to write metadata">>

meta_path(project_path) == project_path \o <<n_dot_incipit>>

load_project_meta(f, project_path, now) ==
    LET rd == FsRead(f, meta_path(project_path))
        v == from_str(rd.data)
        m == DeserializeProjectMeta(v.val)
    IN  IF ~Exists(f, meta_path(project_path)) THEN Ok(ProjectMetaDefault(now), {})
        ELSE IF ~rd.ok THEN Err(E_META_READ, {})
        ELSE IF ~v.ok \/ ~m.ok THEN Err(E_META_PARSE, {rd.at})
        ELSE Ok(m.val, {rd.at})

\* the text save_project_meta writes
MetaContent(meta) == to_string_pretty(SerializeProjectMeta(meta))

save_project_meta(f, project_path, meta) ==
    LET wr == FsWrite(f, meta_path(project_path), MetaContent(meta))
    IN  IF wr.ok THEN [res |-> Ok(<<>>, {wr.at}), fs |-> wr.fs]
        ELSE [res |-> Err(E_META_WRITE, {}), fs |-> f]

(***************************************************************************)
(* commands/settings.rs                                                    *)
(***************************************************************************)
GlobalSettings(recent_projects, editor_settings) ==
    [recent_projects |-> recent_projects, editor_settings |-> editor_settings]

GlobalSettingsDefault == GlobalSettings(<<>>, Object(<<>>))

SerializeGlobalSettings(settings) ==
    Object(<< <<"recent_projects",
                Array([i \in 1..Len(settings.recent_projects) |->
                          String(settings.recent_projects[i])])>>,
              <<"editor_settings", settings.editor_settings>> >>)

DeserializeGlobalSettings(v) ==
    IF v[1] # "Object" THEN [ok |-> FALSE, val |-> <<>>]
    ELSE LET m == v[2]
             rp == Field(m, "recent_projects")
             es == Field(m, "editor_settings")
         IN  IF Cardinality(rp) # 1 \/ Cardinality(es) # 1
             THEN [ok |-> FALSE, val |-> <<>>]
             ELSE LET a == FieldValue(m, "recent_projects")
                  IN  IF a[1] # "Array" THEN [ok |-> FALSE, val |-> <<>>]
                      ELSE IF \E i \in 1..Len(a[2]) : a[2][i][1] # "String"
                      THEN [ok |-> FALSE, val |-> <<>>]
                      ELSE [ok |-> TRUE,
                            val |-> GlobalSettings(
                                [i \in 1..Len(a[2]) |-> a[2][i][2]],
                                FieldValue(m, "editor_settings"))]

\* fs::create_dir_all
RECURSIVE create_dir_all(_, _)
create_dir_all(f, p) ==
    LET r == Resolve(f, p)
    IN  IF r.st = "ok" THEN [ok |-> f[r.path].kind = "dir", fs |-> f]
        ELSE IF r.st = "new" THEN [ok |-> TRUE, fs |-> (r.path :> Dir) @@ f]
        ELSE IF ~HasParent(p) THEN [ok |-> FALSE, fs |-> f]
        ELSE LET up == create_dir_all(f, Parent(p))
                 r2 == Resolve(up.fs, p)
             IN  IF up.ok /\ r2.st = "new"
                 THEN [ok |-> TRUE, fs |-> (r2.path :> Dir) @@ up.fs]
                 ELSE [ok |-> FALSE, fs |-> f]

E_CONFIG_DIR == <<"Failed to determine config directory">>
E_CONFIG_CREATE == <<"Failed to create config directory">>
E_SETTINGS_READ == <<"Failed to read settings">>
E_SETTINGS_PARSE == <<"Failed to parse settings">>
E_SETTINGS_WRITE == <<"Failed to write settings">>

\* get_settings_path: config_dir is dirs::config_dir(), <<>> for None or
\* <<dir>>; the application's directory is created when it is missing
get_settings_path(f, config_dir) ==
    IF config_dir = <<>> THEN [ok |-> FALSE, err |-> E_CONFIG_DIR, path |-> <<>>, fs |-> f]
    ELSE LET app_config_dir == config_dir[1] \o <<n_incipit>>
             mk == create_dir_all(f, app_config_dir)
             path == app_config_dir \o <<n_settings_json>>
         IN  IF Exists(f, app_config_dir)
             THEN [ok |-> TRUE, err |-> <<>>, path |-> path, fs |-> f]
             ELSE IF ~mk.ok
             THEN [ok |-> FALSE, err |-> E_CONFIG_CREATE, path |-> <<>>, fs |-> f]
             ELSE [ok |-> TRUE, err |-> <<>>, path |-> path, fs |-> mk.fs]

\* the result of load_global_settings and the filesystem it leaves
load_global_settings(f, config_dir) ==
    LET sp == get_settings_path(f, config_dir)
        rd == FsRead(sp.fs, sp.path)
        v == from_str(rd.data)
        g == DeserializeGlobalSettings(v.val)
    IN  IF ~sp.ok THEN [res |-> Err(sp.err, {}), fs |-> f]
        ELSE IF ~Exists(sp.fs, sp.path)
             THEN [res |-> Ok(GlobalSettingsDefault, {}), fs |-> sp.fs]
        ELSE IF ~rd.ok THEN [res |-> Err(E_SETTINGS_READ, {}), fs |-> sp.fs]
        ELSE IF ~v.ok \/ ~g.ok THEN [res |-> Err(E_SETTINGS_PARSE, {rd.at}), fs |-> sp.fs]
        ELSE [res |-> Ok(g.val, {rd.at}), fs |-> sp.fs]

save_global_settings(f, config_dir, settings) ==
    LET sp == get_settings_path(f, config_dir)
        wr == FsWrite(sp.fs, sp.path,
                      to_string_pretty(SerializeGlobalSettings(settings)))
    IN  IF ~sp.ok THEN [res |-> Err(sp.err, {}), fs |-> f]
        ELSE IF wr.ok THEN [res |-> Ok(<<>>, {wr.at}), fs |-> wr.fs]
        ELSE [res |-> Err(E_SETTINGS_WRITE, {}), fs |-> sp.fs]

(***************************************************************************)
(* Characters: their code points (String's Ord compares bytes) and         *)
(* char::to_lowercase, for the ASCII letters and the marks names use.      *)
(***************************************************************************)
UPPER ==
    <<"A", "B", "C", "D", "E", "F", "G", "H", "I", "J", "K", "L", "M", "N",
      "O", "P", "Q", "R", "S", "T", "U", "V", "W", "X", "Y", "Z">>

LOWER ==
    <<"a", "b", "c", "d", "e", "f", "g", "h", "i", "j", "k", "l", "m", "n",
      "o", "p", "q", "r", "s", "t", "u", "v", "w", "x", "y", "z">>

Marks == {".", "/", "_"}
Chars == {UPPER[i] : i \in 1..Len(UPPER)} \cup {LOWER[i] : i \in 1..Len(LOWER)} \cup Marks

IndexIn(alphabet, c) ==
    IF \E i \in 1..Len(alphabet) : alphabet[i] = c
    THEN CHOOSE i \in 1..Len(alphabet) : alphabet[i] = c
    ELSE 0

\* the code point of each character
CodePoints ==
    [c \in Chars |->
        IF IndexIn(UPPER, c) > 0 THEN 64 + IndexIn(UPPER, c)
        ELSE IF IndexIn(LOWER, c) > 0 THEN 96 + IndexIn(LOWER, c)
        ELSE IF c = "." THEN 46
        ELSE IF c = "/" THEN 47
        ELSE 95]

Code(c) == CodePoints[c]

\* char::to_lowercase of each character
LowerCases ==
    [c \in Chars |-> IF IndexIn(UPPER, c) > 0 THEN LOWER[IndexIn(UPPER, c)] ELSE c]

CharToLower(c) == LowerCases[c]

\* str::to_lowercase
to_lowercase(name) == [i \in 1..Len(name) |-> CharToLower(name[i])]

\* Ord::cmp of two strings: "Less", "Equal" or "Greater"
RECURSIVE StrCmp(_, _, _)
StrCmp(a, b, i) ==
    IF i > Len(a) /\ i > Len(b) THEN "Equal"
    ELSE IF i > Len(a) THEN "Less"
    ELSE IF i > Len(b) THEN "Greater"
    ELSE IF Code(a[i]) < Code(b[i]) THEN "Less"
    ELSE IF Code(a[i]) > Code(b[i]) THEN "Greater"
    ELSE StrCmp(a, b, i + 1)

\* str::starts_with('.')
StartsWithDot(name) == Len(name) >= 1 /\ name[1] = "."

(***************************************************************************)
(* commands/project.rs: FileNode, build_file_tree, open_project            *)
(***************************************************************************)
\* children is Some(entries) for a directory and None (here <<>>) for a file
FileNode(name, path, is_dir, children) ==
    [name |-> name, path |-> path, is_dir |-> is_dir, children |-> children]

\* the filter as it would be if only the metadata file were skipped
KeepEntryOnlyMeta(name) == name # n_dot_incipit

\* the filter of build_file_tree: hidden entries and the metadata file go
KeepEntry(name) == ~StartsWithDot(name) /\ name # n_dot_incipit

\* the comparison without the lower-casing
CompareNodesCaseSensitive(a, b) ==
    IF a.is_dir /\ ~b.is_dir THEN "Less"
    ELSE IF ~a.is_dir /\ b.is_dir THEN "Greater"
    ELSE StrCmp(a.name, b.name, 1)

\* the comparison build_file_tree sorts with
CompareNodes(a, b) ==
    IF a.is_dir /\ ~b.is_dir THEN "Less"
    ELSE IF ~a.is_dir /\ b.is_dir THEN "Greater"
    ELSE StrCmp(to_lowercase(a.name), to_lowercase(b.name), 1)

\* slice::sort_by, a stable sort: each element goes before the first one
\* already placed that it is less than
RECURSIVE InsertSorted(_, _, _)
InsertSorted(sorted, x, i) ==
    IF i > Len(sorted) THEN Append(sorted, x)
    ELSE IF CompareNodes(x, sorted[i]) = "Less"
         THEN SubSeq(sorted, 1, i - 1) \o <<x>> \o SubSeq(sorted, i, Len(sorted))
    ELSE InsertSorted(sorted, x, i + 1)

RECURSIVE SortFrom(_, _, _)
SortFrom(entries, i, sorted) ==
    IF i > Len(entries) THEN sorted
    ELSE SortFrom(entries, i + 1, InsertSorted(sorted, entries[i], 1))

sort_by(entries) == SortFrom(entries, 1, <<>>)

\* fs::read_dir: the names in a directory, in the order the filesystem
\* lists them (order: a sequence of all names, in the filesystem's order)
read_dir(f, dir, order) ==
    LET IsEntry(n) == Append(dir, n) \in DOMAIN f
    IN  SelectSeq(order, IsEntry)

E_READ_DIR == <<"Failed to read directory">>
E_NOT_EXIST == <<"Path does not exist">>
E_NOT_DIR == <<"Path is not a directory">>

\* build_file_tree. unreadable: the directories read_dir fails on.
RECURSIVE build_file_tree(_, _, _, _, _)
RECURSIVE BuildEntries(_, _, _, _, _, _, _)
BuildEntries(f, path, root_path, order, unreadable, names, i) ==
    IF i > Len(names) THEN <<>>
    ELSE LET sub == build_file_tree(f, Append(path, names[i]), root_path,
                                    order, unreadable)
         IN  (IF KeepEntry(names[i]) /\ sub.ok THEN <<sub.val>> ELSE <<>>)
             \o BuildEntries(f, path, root_path, order, unreadable, names, i + 1)

build_file_tree(f, path, root_path, order, unreadable) ==
    LET name == IF HasFileName(path) THEN FileName(path) ELSE <<>>
        relative_path == IF StartsWith(path, root_path)
                         THEN SubSeq(path, Len(root_path) + 1, Len(path))
                         ELSE path
        is_dir == IsDir(f, path)
        dir == Resolve(f, path).path
    IN  IF ~is_dir THEN Ok(FileNode(name, relative_path, FALSE, <<>>), {})
        ELSE IF dir \in unreadable THEN Err(E_READ_DIR, {})
        ELSE Ok(FileNode(name, relative_path, TRUE,
                         sort_by(BuildEntries(f, path, root_path, order, unreadable,
                                              read_dir(f, dir, order), 1))), {})

open_project(f, path, order, unreadable) ==
    IF ~Exists(f, path) THEN Err(E_NOT_EXIST, {})
    ELSE IF ~IsDir(f, path) THEN Err(E_NOT_DIR, {})
    ELSE build_file_tree(f, path, path, order, unreadable)

(***************************************************************************)
(* The state.                                                              *)
(*   fs    the filesystem                                                  *)
(*   last  the call that finished last                                     *)
(*   cp    the compile_latex_project call in progress, if any: its closure *)
(*         runs the write, the engine's discovery, the engine and the      *)
(*         read-back in this order                                         *)
(*   env   what the process finds around it: dirs::config_dir() and the    *)
(*         directories it may not list                                     *)
(***************************************************************************)
TEXT(s) == << <<"text", s>> >>
PDF(s) == << <<"pdf", s>> >>

ContentNames == <<"c1", "c2", "c3", "c4">>
Contents == {TEXT(ContentNames[i]) : i \in 1..NumContents}
ByteNames == <<"B1", "B2", "B3", "B4">>
Bytes == {<<>>} \cup {PDF(ByteNames[i]) : i \in 1..NumBytes}
TimeNames == <<"t1", "t2", "t3", "t4">>
Times == {TimeNames[i] : i \in 1..NumTimes}
Stderrs == {"", "! Undefined control sequence."}

NoEngine == [ran |-> FALSE, success |-> FALSE, stderr |-> ""]
Engine(success, stderr) == [ran |-> TRUE, success |-> success, stderr |-> stderr]

NoCall == Called("none", <<>>, <<>>, <<>>, Ok(<<>>, {}), NoEngine)

Idle ==
    [pc |-> "idle", project_path |-> <<>>, file_path |-> <<>>, source |-> <<>>,
     tectonic |-> "", touched |-> {}]

P_proj == <<SLASH, n_proj>>
P_etc == <<SLASH, n_etc>>
P_nope == <<SLASH, n_nope>>

\* a project with a subdirectory and a build directory, and three symbolic
\* links in it: to a file outside, to a missing file outside, to a directory
\* outside
ProjectFs ==
    (ROOT :> Dir)
    @@ (P_proj :> Dir)
    @@ (P_proj \o <<n_main_tex>> :> File(TEXT("main")))
    @@ (P_proj \o <<n_sub>> :> Dir)
    @@ (P_proj \o <<n_build>> :> Dir)
    @@ (P_proj \o <<n_link>> :> Link(P_etc \o <<n_pw>>))
    @@ (P_proj \o <<n_dang>> :> Link(P_etc \o <<n_new>>))
    @@ (P_proj \o <<n_dlink>> :> Link(P_etc))
    @@ (P_etc :> Dir)
    @@ (P_etc \o <<n_pw>> :> File(TEXT("secret")))

NoEnv == [config_dir |-> <<>>, unreadable |-> {}]

(***************************************************************************)
(* The commands as actions                                                 *)
(***************************************************************************)
ReadFile(project_path, file_path) ==
    /\ cp.pc = "idle"
    /\ last' = Called("read_file", project_path, file_path, <<>>,
                      read_file(fs, project_path, file_path), NoEngine)
    /\ UNCHANGED <<fs, cp, env>>

SaveFile(project_path, file_path, content) ==
    LET r == save_file(fs, project_path, file_path, content)
    IN  /\ cp.pc = "idle"
        /\ fs' = r.fs
        /\ last' = Called("save_file", project_path, file_path, content, r.res, NoEngine)
        /\ UNCHANGED <<cp, env>>

CheckPdfExists(project_path, file_path) ==
    /\ cp.pc = "idle"
    /\ last' = Called("check_pdf_exists", project_path, file_path, <<>>,
                      check_pdf_exists(fs, project_path, file_path), NoEngine)
    /\ UNCHANGED <<fs, cp, env>>

LoadPdf(project_path, file_path) ==
    /\ cp.pc = "idle"
    /\ last' = Called("load_pdf", project_path, file_path, <<>>,
                      load_pdf(fs, project_path, file_path), NoEngine)
    /\ UNCHANGED <<fs, cp, env>>

LoadProjectMeta(project_path, now) ==
    /\ cp.pc = "idle"
    /\ last' = Called("load_project_meta", project_path, <<>>, <<>>,
                      load_project_meta(fs, project_path, now), NoEngine)
    /\ UNCHANGED <<fs, cp, env>>

SaveProjectMeta(project_path, meta) ==
    LET r == save_project_meta(fs, project_path, meta)
    IN  /\ cp.pc = "idle"
        /\ fs' = r.fs
        /\ last' = Called("save_project_meta", project_path, <<>>, meta, r.res, NoEngine)
        /\ UNCHANGED <<cp, env>>

LoadGlobalSettings ==
    LET r == load_global_settings(fs, env.config_dir)
    IN  /\ cp.pc = "idle"
        /\ fs' = r.fs
        /\ last' = Called("load_global_settings", <<>>, <<>>, <<>>, r.res, NoEngine)
        /\ UNCHANGED <<cp, env>>

SaveGlobalSettings(settings) ==
    LET r == save_global_settings(fs, env.config_dir, settings)
    IN  /\ cp.pc = "idle"
        /\ fs' = r.fs
        /\ last' = Called("save_global_settings", <<>>, <<>>, settings, r.res, NoEngine)
        /\ UNCHANGED <<cp, env>>

OpenProject(path, order) ==
    /\ cp.pc = "idle"
    /\ last' = Called("open_project", path, <<>>, order,
                      open_project(fs, path, order, env.unreadable), NoEngine)
    /\ UNCHANGED <<fs, cp, env>>

\* compile_latex: the library's outcome is the environment's
CompileLatex(lib_ok, pdf_data) ==
    /\ cp.pc = "idle"
    /\ last' = Called("compile_latex", <<>>, <<>>, pdf_data,
                      compile_latex(lib_ok, pdf_data), NoEngine)
    /\ UNCHANGED <<fs, cp, env>>

\* compile_latex_project, first step: the buffer goes to disk
CompileStart(project_path, file_path, source) ==
    LET wr == CompileWriteSource(fs, project_path, file_path, source)
    IN  /\ cp.pc = "idle"
        /\ IF wr.ok
           THEN /\ fs' = wr.fs
                /\ cp' = [pc |-> "written", project_path |-> project_path,
                          file_path |-> file_path, source |-> source,
                          tectonic |-> "", touched |-> {wr.at}]
                /\ UNCHANGED last
           ELSE /\ last' = Called("compile_latex_project", project_path, file_path,
                                  source, Err(E_WRITE, {}), NoEngine)
                /\ UNCHANGED <<fs, cp>>
        /\ UNCHANGED env

\* second step: which_tectonic
CompileFindEngine(startable) ==
    LET w == which_tectonic(startable)
    IN  /\ cp.pc = "written"
        /\ IF w.ok
           THEN /\ cp' = [cp EXCEPT !.pc = "located", !.tectonic = w.path]
                /\ UNCHANGED last
           ELSE /\ last' = Called("compile_latex_project", cp.project_path,
                                  cp.file_path, cp.source,
                                  Err(E_NO_TECTONIC, cp.touched), NoEngine)
                /\ cp' = Idle
        /\ UNCHANGED <<fs, env>>

\* what the engine leaves behind: nothing, or a document in build/ or in the
\* project directory
EngineOutput(f, project_path, file_path, place, bytes) ==
    IF place = "none" \/ ~HasFileName(file_path) THEN f
    ELSE IF place = "build"
    THEN FsWrite(f, pdf_path_build(project_path, file_path), bytes).fs
    ELSE FsWrite(f, pdf_path_main(project_path, file_path), bytes).fs

\* third step: the engine runs in the project directory, then its exit status
\* is looked at
CompileRunEngine(spawned, success, stderr, place, bytes) ==
    /\ cp.pc = "located"
    /\ IF ~spawned \/ ~IsDir(fs, cp.project_path)
       THEN /\ last' = Called("compile_latex_project", cp.project_path, cp.file_path,
                              cp.source, Err(E_EXECUTE, cp.touched), NoEngine)
            /\ cp' = Idle
            /\ UNCHANGED fs
       ELSE /\ fs' = EngineOutput(fs, cp.project_path, cp.file_path, place, bytes)
            /\ IF success
               THEN /\ cp' = [cp EXCEPT !.pc = "ran"]
                    /\ UNCHANGED last
               ELSE /\ last' = Called("compile_latex_project", cp.project_path,
                                      cp.file_path, cp.source,
                                      Err(E_COMPILE(stderr), cp.touched),
                                      Engine(FALSE, stderr))
                    /\ cp' = Idle
    /\ UNCHANGED env

\* last step: the document is read back
CompileFinish ==
    LET r == ReadBackPdf(fs, cp.project_path, cp.file_path)
    IN  /\ cp.pc = "ran"
        /\ last' = Called("compile_latex_project", cp.project_path, cp.file_path,
                          cp.source, [r EXCEPT !.touched = @ \cup cp.touched],
                          Engine(TRUE, ""))
        /\ cp' = Idle
        /\ UNCHANGED <<fs, env>>

(***************************************************************************)
(* Spec: the file commands on one project, with paths that stay inside it, *)
(* leave it, go through its symbolic links or name missing directories.    *)
(***************************************************************************)
Roots == {P_proj, P_nope}

\* a new file under k missing directories: nodir/.../nodir/ch.tex
RECURSIVE UnderMissing(_)
UnderMissing(k) == IF k = 0 THEN <<n_ch_tex>> ELSE <<n_nodir>> \o UnderMissing(k - 1)

FilePaths ==
    { <<n_main_tex>>,
      <<n_sub, n_ch_tex>>,
      <<n_sub, DOTDOT, n_main_tex>>,
      <<DOTDOT, n_etc, n_pw>>,
      <<DOTDOT, n_etc, n_new>>,
      <<SLASH, n_etc, n_pw>>,
      <<n_link>>,
      <<n_dang>>,
      <<n_dlink, n_new>>,
      <<DOTDOT>> }
    \cup {UnderMissing(k) : k \in 1..MaxMissingDirs}

Buffers == {TEXT("c1"), TEXT("c2")}

EscapingPath == <<DOTDOT, n_etc, n_new>>

Meta1 == ProjectMeta(<<>>, "main.tex", Null)

Init ==
    /\ fs = ProjectFs
    /\ last = NoCall
    /\ cp = Idle
    /\ env = NoEnv

Next ==
    \/ \E r \in Roots, p \in FilePaths : ReadFile(r, p)
    \/ \E r \in Roots, p \in FilePaths, c \in Buffers : SaveFile(r, p, c)
    \/ \E p \in {<<n_main_tex>>, EscapingPath} : CompileStart(P_proj, p, TEXT("c1"))
    \/ \E st \in {{}, {"tectonic"}} : CompileFindEngine(st)
    \/ \E ok \in BOOLEAN, place \in {"none", "build"} :
          CompileRunEngine(TRUE, ok, "", place, PDF("B1"))
    \/ CompileFinish
    \/ SaveProjectMeta(P_proj, Meta1)
    \/ \E p \in {<<n_main_tex>>, EscapingPath} : LoadPdf(P_proj, p)

Spec == Init /\ [][Next]_vars

(***************************************************************************)
(* SpecCompile: compile_latex_project step by step with every outcome of   *)
(* the engine, compile_latex, and the commands that look for the document. *)
(***************************************************************************)
CompilePaths == { <<n_main_tex>>, <<n_nodir, n_ch_tex>> }

Startable == SUBSET {common_paths[i] : i \in 1..Len(common_paths)}

NextCompile ==
    \/ \E r \in Roots, p \in CompilePaths, c \in Contents : CompileStart(r, p, c)
    \/ \E st \in Startable : CompileFindEngine(st)
    \/ \E spawned \in BOOLEAN, ok \in BOOLEAN, e \in Stderrs,
          place \in {"none", "build", "main"}, b \in Bytes :
          CompileRunEngine(spawned, ok, e, place, b)
    \/ CompileFinish
    \/ \E p \in CompilePaths : CheckPdfExists(P_proj, p)
    \/ \E p \in CompilePaths : LoadPdf(P_proj, p)
    \/ \E ok \in BOOLEAN, b \in Bytes : CompileLatex(ok, b)

SpecCompile == Init /\ [][NextCompile]_vars

(***************************************************************************)
(* The path sandbox (Spec)                                                 *)
(***************************************************************************)
\* the canonical project root of the last call
LastRoot == Canonicalize(fs, last.root).path

\* C1: read_file and save_file get to the file only when the canonical form
\* of root joined with path lies under the canonical root; for a path that
\* resolves outside the root they return an error and touch no file.
C1_SandboxedReadSave ==
    (last.op \in {"read_file", "save_file"} /\ Canonicalize(fs, last.root).ok)
    => LET r == Resolve(fs, Join(last.root, last.path))
       IN  /\ \A t \in last.res.touched : StartsWith(t, LastRoot)
           /\ (r.st \in {"ok", "new"} /\ ~StartsWith(r.path, LastRoot))
              => (~last.res.ok /\ last.res.touched = {})

\* C2: compile_latex_project never writes the buffer to a path that resolves
\* outside the project root (nor does any command touch a file outside it).
C2_CompileWritesInsideRoot ==
    (cp.pc # "idle" /\ Canonicalize(fs, cp.project_path).ok)
    => \A t \in cp.touched :
          StartsWith(t, Canonicalize(fs, cp.project_path).path)

\* the step is a save_file call on a path that does not exist yet, under a
\* root that does
SaveNew ==
    /\ last'.op = "save_file"
    /\ SaveFile(last'.root, last'.path, last'.arg)
    /\ Canonicalize(fs, last'.root).ok
    /\ ~Exists(fs, Join(last'.root, last'.path))

\* the check accepted: the call went on to the write
Accepted(res) == res.ok \/ res.err = E_WRITE

\* C3 as claimed: for a new file the containment check is made on the nearest
\* existing ancestor: accepted when that lies under the root, whatever the
\* number of missing directories, and access denied when it lies outside.
C3_NearestAncestorChecked ==
    [][SaveNew
       => LET full == Join(last'.root, last'.path)
              anc == Canonicalize(fs, NearestExisting(fs, full)).path
          IN  IF StartsWith(anc, Canonicalize(fs, last'.root).path)
              THEN Accepted(last'.res)
              ELSE last'.res.err = E_DENIED]_vars

\* C3 amended: for a new file the containment check is made on the parent
\* directory of the path: accepted when the parent exists and lies under the
\* root, access denied when it exists and lies outside, and an invalid-path
\* error (nothing written) when the parent itself does not exist.
C3_ParentChecked ==
    [][SaveNew
       => LET full == Join(last'.root, last'.path)
              parent == Canonicalize(fs, Parent(full))
          IN  IF ~parent.ok THEN last'.res.err = E_FILE /\ fs' = fs
              ELSE IF StartsWith(parent.path, Canonicalize(fs, last'.root).path)
              THEN Accepted(last'.res)
              ELSE last'.res.err = E_DENIED /\ fs' = fs]_vars

\* a save under two missing directories was refused as an invalid path
C3_Witness ==
    /\ last.op = "save_file"
    /\ last.root = P_proj
    /\ last.path = <<n_nodir, n_nodir, n_ch_tex>>
    /\ last.res.err = E_FILE

(***************************************************************************)
(* Compilation (SpecCompile)                                               *)
(***************************************************************************)
\* the last call was compile_latex_project and no other is in progress
Compiled == cp.pc = "idle" /\ last.op = "compile_latex_project"

\* the document compile_latex_project finds: build/ first, else the project
\* directory
FoundPdf(project_path, file_path) ==
    IF Exists(fs, pdf_path_build(project_path, file_path))
    THEN pdf_path_build(project_path, file_path)
    ELSE pdf_path_main(project_path, file_path)

\* C4: compile_latex_project returns Ok(bytes) only when the engine exited
\* with success and <stem>.pdf exists under build/ or (else) in the project
\* directory and is not empty; an exit failure gives an error that contains
\* the engine's stderr, success without an output file in either place a
\* not-found error, and an empty output an error although the engine
\* reported success. compile_latex refuses an empty result too.
C4_CompileResult ==
    /\ Compiled =>
          LET pdf == FsRead(fs, FoundPdf(last.root, last.path))
              none == /\ ~Exists(fs, pdf_path_build(last.root, last.path))
                      /\ ~Exists(fs, pdf_path_main(last.root, last.path))
          IN  /\ last.res.ok =>
                    /\ last.engine.ran /\ last.engine.success
                    /\ pdf.ok /\ ~none
                    /\ last.res.val = pdf.data
                    /\ Len(last.res.val) > 0
              /\ (last.engine.ran /\ ~last.engine.success) =>
                    /\ ~last.res.ok
                    /\ \E i \in 1..Len(last.res.err) :
                          last.res.err[i] = last.engine.stderr
              /\ (last.engine.success /\ none) => last.res.err = E_PDF_NOT_FOUND
              /\ (last.engine.success /\ pdf.ok /\ Len(pdf.data) = 0) =>
                    last.res.err = E_NO_OUTPUT
    /\ (last.op = "compile_latex" /\ last.res.ok) => Len(last.res.val) > 0

\* the engine reported success and left an empty document: an error
C4_Witness ==
    /\ Compiled
    /\ last.engine.success
    /\ FsRead(fs, FoundPdf(last.root, last.path)).ok
    /\ Len(FsRead(fs, FoundPdf(last.root, last.path)).data) = 0
    /\ ~last.res.ok

\* the file a compile_latex_project call was given holds the buffer
HoldsSource(project_path, file_path, source) ==
    LET rd == FsRead(fs, Join(project_path, file_path))
    IN  rd.ok /\ rd.data = source

\* C9: the buffer is on disk before the engine is looked up or run; when
\* the write fails the engine is never run; and when a later step fails
\* (engine not found, not started, exit failure, missing or empty document)
\* the call returns an error and the file still holds the buffer.
C9_WriteBeforeEngine ==
    /\ cp.pc \in {"written", "located", "ran"} =>
          HoldsSource(cp.project_path, cp.file_path, cp.source)
    /\ (Compiled /\ last.engine.ran) => HoldsSource(last.root, last.path, last.arg)
    /\ (Compiled /\ last.res.err = E_WRITE) => ~last.engine.ran
    /\ (Compiled /\ ~last.res.ok /\ last.res.err # E_WRITE) =>
          HoldsSource(last.root, last.path, last.arg)

\* the engine failed after the buffer replaced what the file held
C9_Witness ==
    /\ Compiled
    /\ last.engine.ran /\ ~last.engine.success
    /\ ~last.res.ok
    /\ last.arg # TEXT("main")
    /\ HoldsSource(last.root, last.path, last.arg)

\* C10: whenever compile_latex_project returned Ok(bytes), check_pdf_exists
\* on the same arguments returns true and load_pdf returns the same bytes,
\* also when the engine left the document in the project directory.
C10_PdfCommandsAgree ==
    (Compiled /\ last.res.ok) =>
        /\ check_pdf_exists(fs, last.root, last.path).val = TRUE
        /\ load_pdf(fs, last.root, last.path).ok
        /\ load_pdf(fs, last.root, last.path).val = last.res.val

(***************************************************************************)
(* SpecMeta: the two metadata stores, started on projects and config       *)
(* directories with and without a stored file.                             *)
(***************************************************************************)
P_cfg == <<SLASH, n_cfg>>
P_app == P_cfg \o <<n_incipit>>

\* a stored object that lacks root_file
MetaWithoutRoot ==
    to_string_pretty(Object(<< <<"last_opened_file", Null>>,
                               <<"project_settings", Null>> >>))

\* what the project's .incipit holds at the start: nothing, or a file
InitialMetaFiles ==
    { <<>>,
      <<File(TEXT("not json"))>>,
      <<File(MetaWithoutRoot)>> }

\* what the application's config directory holds at the start
InitialSettingsFiles ==
    { <<>>,
      <<File(TEXT("not json"))>> }

MetaFs(meta_file, settings_file) ==
    (IF meta_file = <<>> THEN <<>> ELSE (meta_path(P_proj) :> meta_file[1]))
    @@ (IF settings_file = <<>> THEN <<>>
        ELSE (P_app :> Dir) @@ (P_app \o <<n_settings_json>> :> settings_file[1]))
    @@ (P_cfg :> Dir)
    @@ ProjectFs

\* dirs::config_dir(): None, a directory, or a path under a regular file
ConfigDirs == { <<>>, <<P_cfg>>, <<P_etc \o <<n_pw>>>> }

Metas ==
    { ProjectMeta(<<>>, "main.tex", Null),
      ProjectMeta(<<"ch.tex">>, "ch.tex", Object(<< <<"created_at", String("t1")>> >>)),
      ProjectMeta(<<"null">>, "main.tex", Object(<<>>)),
      ProjectMeta(<<"main.tex">>, "ch.tex", String("x")) }
    \cup {ProjectMetaDefault(t) : t \in Times}

Settings ==
    { GlobalSettingsDefault,
      GlobalSettings(<<"/proj">>, Null),
      GlobalSettings(<<"/proj", "/other">>, Object(<< <<"theme", String("dark")>> >>)) }

InitMeta ==
    /\ \E m \in InitialMetaFiles, g \in InitialSettingsFiles : fs = MetaFs(m, g)
    /\ last = NoCall
    /\ cp = Idle
    /\ \E d \in ConfigDirs : env = [config_dir |-> d, unreadable |-> {}]

NextMeta ==
    \/ \E r \in Roots, m \in Metas : SaveProjectMeta(r, m)
    \/ \E r \in Roots, t \in Times : LoadProjectMeta(r, t)
    \/ \E g \in Settings : SaveGlobalSettings(g)
    \/ LoadGlobalSettings

SpecMeta == InitMeta /\ [][NextMeta]_vars

\* C7: after save_project_meta(root, m) succeeds, load_project_meta(root)
\* returns a structure equal to m in all three fields: the value saved last,
\* with nothing kept from an earlier save.
C7_MetaRoundTrip ==
    (last.op = "save_project_meta" /\ last.res.ok) =>
        \A t \in Times :
            LET loaded == load_project_meta(fs, last.root, t)
            IN  /\ loaded.ok
                /\ loaded.val.last_opened_file = last.arg.last_opened_file
                /\ loaded.val.root_file = last.arg.root_file
                /\ loaded.val.project_settings = last.arg.project_settings

\* a save replaced the metadata another save had stored, with other fields
C7_Witness ==
    /\ last.op = "save_project_meta"
    /\ last.res.ok
    /\ last.arg = ProjectMeta(<<"null">>, "main.tex", Object(<<>>))
    /\ load_project_meta(fs, last.root, "t1").val = last.arg

\* the settings file of the environment, when its directory is known
SettingsPath == env.config_dir[1] \o <<n_incipit, n_settings_json>>

NoSettingsFile == env.config_dir = <<>> \/ ~Exists(fs, SettingsPath)

ProjectDefaults ==
    (last.op = "load_project_meta" /\ ~Exists(fs, meta_path(last.root))) =>
        /\ last.res.ok
        /\ last.res.val.last_opened_file = <<"main.tex">>
        /\ last.res.val.root_file = "main.tex"

\* C8 as claimed: load_project_meta on a root without .incipit succeeds with
\* last_opened_file = root_file = "main.tex"; likewise load_global_settings
\* with no settings file yields empty recent_projects and editor_settings.
C8_DefaultsAlways ==
    /\ ProjectDefaults
    /\ (last.op = "load_global_settings" /\ NoSettingsFile) =>
          /\ last.res.ok
          /\ last.res.val.recent_projects = <<>>
          /\ last.res.val.editor_settings = Object(<<>>)

\* C8 amended: load_project_meta on a root without .incipit succeeds with
\* last_opened_file = root_file = "main.tex"; load_global_settings with no
\* settings file yields empty recent_projects and editor_settings when the
\* config directory is known and the application's directory in it exists
\* or could be created, and returns an error otherwise.
C8_DefaultsWhenPathKnown ==
    /\ ProjectDefaults
    /\ (last.op = "load_global_settings" /\ NoSettingsFile) =>
          IF env.config_dir # <<>> /\ IsDir(fs, env.config_dir[1] \o <<n_incipit>>)
          THEN /\ last.res.ok
               /\ last.res.val.recent_projects = <<>>
               /\ last.res.val.editor_settings = Object(<<>>)
          ELSE ~last.res.ok

\* the defaults were returned from a config directory without settings file
C8_Witness ==
    /\ last.op = "load_global_settings"
    /\ env.config_dir # <<>>
    /\ ~Exists(fs, SettingsPath)
    /\ last.res.ok
    /\ last.res.val = GlobalSettingsDefault

(***************************************************************************)
(* SpecTree: open_project on directory trees with hidden entries, a        *)
(* metadata file, names in both cases and a directory that cannot be       *)
(* listed, under every listing order of the sortable names.                *)
(***************************************************************************)
P_home == <<SLASH, n_dot_home>>
P_A == P_proj \o <<n_A>>

\* entries of the project directory that a tree may or may not hold
TopFiles == {n_b_tex, n_a_tex, n_Z_tex}
TopChoices == { {}, {n_b_tex, n_a_tex}, {n_a_tex, n_Z_tex}, TopFiles }
HiddenTop ==
    (P_proj \o <<n_dot_incipit>> :> File(TEXT("{}")))
    @@ (P_proj \o <<n_dot_git>> :> Dir)
    @@ (P_proj \o <<n_dot_git, n_HEAD>> :> File(TEXT("ref")))
    @@ (P_proj \o <<n_dot_git, n_a_tex>> :> File(TEXT("a")))

\* what the directory A may hold
SubChoices ==
    { {}, {n_y_tex, n_B_tex}, {n_y_tex, n_B_tex, n_dot_keep, n_dot_dot_x} }

FilesIn(dir, names) == [p \in {dir \o <<n>> : n \in names} |-> File(TEXT("x"))]

\* a hidden directory as a project root, and the project
TreeBase ==
    (ROOT :> Dir) @@ (P_proj :> Dir)
    @@ (P_home :> Dir) @@ (P_home \o <<n_a_tex>> :> File(TEXT("a")))

TreeFs(top, hidden, with_A, sub) ==
    FilesIn(P_proj, top)
    @@ (IF hidden THEN HiddenTop ELSE <<>>)
    @@ (IF with_A THEN (P_A :> Dir) @@ FilesIn(P_A, sub) ELSE <<>>)
    @@ TreeBase

ListingsOf(S) ==
    {q \in [1..Cardinality(S) -> S] : \A i, j \in 1..Cardinality(S) : i # j => q[i] # q[j]}

\* the orders a directory listing may come in: b.tex, a.tex and A in every
\* order, the other names before or after them
OtherNames ==
    <<n_Z_tex, n_dot_git, n_dot_incipit, n_dot_keep, n_B_tex, n_y_tex, n_HEAD,
      n_dot_dot_x>>
Reverse(q) == [i \in 1..Len(q) |-> q[Len(q) + 1 - i]]
Orders ==
    {q \o OtherNames : q \in ListingsOf({n_b_tex, n_a_tex, n_A})}
    \cup {Reverse(OtherNames) \o q : q \in ListingsOf({n_b_tex, n_a_tex, n_A})}

OpenPaths == {P_proj, P_A, P_home, P_proj \o <<n_a_tex>>, P_nope}

InitTree ==
    /\ \E top \in TopChoices, hidden \in BOOLEAN, with_A \in BOOLEAN,
          sub \in SubChoices :
          /\ (~with_A => sub = {})
          /\ fs = TreeFs(top, hidden, with_A, sub)
    /\ last = NoCall
    /\ cp = Idle
    /\ \E u \in {{}, {P_A}} :
          /\ (u # {} => P_A \o <<n_dot_keep>> \in DOMAIN fs)
          /\ env = [config_dir |-> <<>>, unreadable |-> u]

NextTree == \E p \in OpenPaths, order \in Orders : OpenProject(p, order)

SpecTree == InitTree /\ [][NextTree]_vars

\* the nodes of a tree
RECURSIVE Nodes(_)
Nodes(n) == {n} \cup UNION {Nodes(n.children[i]) : i \in 1..Len(n.children)}

Opened == last.op = "open_project" /\ last.res.ok

\* a tree entry is hidden when a component of its path starts with a dot
Hidden(rel) == \E i \in 1..Len(rel) : StartsWithDot(rel[i])

\* the entries below the opened directory that the walk can get to: no
\* hidden component, and every directory above them can be listed
Reachable(root) ==
    {p \in DOMAIN fs :
        /\ StartsWith(p, root) /\ p # root
        /\ ~Hidden(SubSeq(p, Len(root) + 1, Len(p)))
        /\ \A k \in Len(root)..(Len(p) - 1) : SubSeq(p, 1, k) \notin env.unreadable
        /\ ~(fs[p].kind = "dir" /\ p \in env.unreadable)}

\* every entry the walk can get to has its node
Complete ==
    \A p \in Reachable(last.root) :
        \E n \in Nodes(last.res.val) :
            /\ n.path = SubSeq(p, Len(last.root) + 1, Len(p))
            /\ n.name = p[Len(p)]
            /\ n.is_dir = (fs[p].kind = "dir")

\* C5 as claimed: the tree open_project returns has, at any depth, no node
\* whose name starts with a dot and none for .incipit, and has a node for
\* every other readable entry; a hidden directory goes with its subtree.
C5_NoHiddenNode ==
    Opened =>
        /\ \A n \in Nodes(last.res.val) :
              ~StartsWithDot(n.name) /\ n.name # n_dot_incipit /\ ~Hidden(n.path)
        /\ Complete

\* C5 amended: the tree open_project returns has, below its root node, no
\* node whose name starts with a dot and none for .incipit, and has a node
\* for every other readable entry; a hidden directory goes with its
\* subtree. (The root node carries the opened directory's own name.)
C5_NoHiddenNodeBelowRoot ==
    Opened =>
        /\ \A n \in Nodes(last.res.val) \ {last.res.val} :
              ~StartsWithDot(n.name) /\ n.name # n_dot_incipit /\ ~Hidden(n.path)
        /\ ~Hidden(last.res.val.path)
        /\ Complete

\* a project with hidden entries and a metadata file was opened, and the
\* tree shows its visible entries
C5_Witness ==
    /\ Opened
    /\ last.root = P_proj
    /\ P_proj \o <<n_dot_incipit>> \in DOMAIN fs
    /\ P_proj \o <<n_dot_git, n_a_tex>> \in DOMAIN fs
    /\ P_A \o <<n_dot_keep>> \in DOMAIN fs
    /\ P_A \notin env.unreadable
    /\ Cardinality(Nodes(last.res.val)) >= 5

LowerLeq(a, b) == StrCmp(to_lowercase(a), to_lowercase(b), 1) \in {"Less", "Equal"}

NamesOf(children) == [i \in 1..Len(children) |-> children[i].name]

====
